---- MODULE Spec2Model ----
(***************************************************************************)
(* Model of etl.py: the MovieLens ETL that normalises movie rows, enriches *)
(* them through OMDb with a file-backed cache, and upserts movies, genres, *)
(* movie-genre associations and ratings into PostgreSQL.                   *)
(*                                                                         *)
(* Strings that the code takes apart (titles, cache keys) are sequences of *)
(* one-character strings.  Python's None is the integer None for a year    *)
(* (the year regex captures digits only, so a parsed year is never         *)
(* negative) and the string NULL for a nullable text column.               *)
(***************************************************************************)
EXTENDS Integers, Sequences, FiniteSets, TLC

\* ------------------------------------------------------------------ bounds
MaxRows == 2
MaxRuns == 2
MaxTokens == 3

\* ------------------------------------------------------- values and strings
None == -1
NULL == "<null>"

Digits == {"0", "1", "2", "3", "4", "5", "6", "7", "8", "9"}
Whitespace == {" "}

DigitVal(c) ==
  CASE c = "0" -> 0 [] c = "1" -> 1 [] c = "2" -> 2 [] c = "3" -> 3
    [] c = "4" -> 4 [] c = "5" -> 5 [] c = "6" -> 6 [] c = "7" -> 7
    [] c = "8" -> 8 [] c = "9" -> 9

DigitChar(d) ==
  CASE d = 0 -> "0" [] d = 1 -> "1" [] d = 2 -> "2" [] d = 3 -> "3"
    [] d = 4 -> "4" [] d = 5 -> "5" [] d = 6 -> "6" [] d = 7 -> "7"
    [] d = 8 -> "8" [] d = 9 -> "9"

\* int(text) for a text of decimal digits
RECURSIVE int(_)
int(ds) ==
  IF ds = <<>> THEN 0
  ELSE 10 * int(SubSeq(ds, 1, Len(ds) - 1)) + DigitVal(ds[Len(ds)])

\* str(n) for a non-negative integer
RECURSIVE str(_)
str(n) ==
  IF n < 10 THEN <<DigitChar(n)>>
  ELSE str(n \div 10) \o <<DigitChar(n % 10)>>

\* MOVIE_YEAR_RE = \((\d{4})\) matched at position i of s
MOVIE_YEAR_RE(s, i) ==
  /\ i >= 1
  /\ i + 5 <= Len(s)
  /\ s[i] = "("
  /\ \A k \in 1..4 : s[i + k] \in Digits
  /\ s[i + 5] = ")"

\* MOVIE_YEAR_RE.search: the start of the leftmost match, 0 when there is none
search(s) ==
  IF \E i \in 1..Len(s) : MOVIE_YEAR_RE(s, i)
  THEN CHOOSE i \in 1..Len(s) :
         /\ MOVIE_YEAR_RE(s, i)
         /\ \A j \in 1..(i - 1) : ~MOVIE_YEAR_RE(s, j)
  ELSE 0

\* MOVIE_YEAR_RE.sub("", s): one left-to-right pass from position i that drops
\* every match it meets and copies every other character
RECURSIVE sub(_, _)
sub(s, i) ==
  IF i > Len(s) THEN <<>>
  ELSE IF MOVIE_YEAR_RE(s, i) THEN sub(s, i + 6)
  ELSE <<s[i]>> \o sub(s, i + 1)

\* sub with count=1: only the leftmost match is dropped
subFirst(s) ==
  LET i == search(s)
  IN IF i = 0 THEN s ELSE SubSeq(s, 1, i - 1) \o SubSeq(s, i + 6, Len(s))

\* str.strip()
RECURSIVE lstrip(_)
lstrip(s) ==
  IF s # <<>> /\ s[1] \in Whitespace THEN lstrip(Tail(s)) ELSE s

RECURSIVE rstrip(_)
rstrip(s) ==
  IF s # <<>> /\ s[Len(s)] \in Whitespace
  THEN rstrip(SubSeq(s, 1, Len(s) - 1)) ELSE s

strip(s) == rstrip(lstrip(s))

parse_year_from_title(title) ==
  LET i == search(title)
  IN IF i = 0 THEN None ELSE int(SubSeq(title, i + 1, i + 4))

clean_title_first(title) == strip(subFirst(title))

clean_title(title) == strip(sub(title, 1))

\* f"{year}": the text an f-string gives for a year that may be None
format_year_empty(year) == IF year = None THEN <<>> ELSE str(year)

format_year(year) == IF year = None THEN <<"N", "o", "n", "e">> ELSE str(year)

\* cache_key = f"{title_for_query}{year}"
make_cache_key(title_for_query, year) == title_for_query \o format_year(year)

\* truthiness of a year, as in "if year:"
truthy_year(year) == year # None /\ year # 0

\* ------------------------------------------------------------ python values
\* A value held by the cache or by omdb_data: None, or a dict (a function from
\* its keys to strings).
PyNone == [t |-> "None"]
PyDict(d) == [t |-> "dict", d |-> d]

\* truthiness of such a value, as in "if omdb_resp:" and "if omdb_data:"
truthy(v) == v.t = "dict" /\ DOMAIN v.d # {}

\* dict.get(key): the value, None when the key is absent
get(d, key) == IF key \in DOMAIN d THEN d[key] ELSE NULL

\* json.dumps of a payload: its members in key order
JsonKeys == <<"Response", "Title", "Director", "Plot", "BoxOffice", "imdbID">>

RECURSIVE dumps_from(_, _)
dumps_from(d, k) ==
  IF k > Len(JsonKeys) THEN "}"
  ELSE IF JsonKeys[k] \in DOMAIN d
       THEN JsonKeys[k] \o ":" \o d[JsonKeys[k]] \o ";" \o dumps_from(d, k + 1)
       ELSE dumps_from(d, k + 1)

json_dumps(d) == "{" \o dumps_from(d, 1)

\* A cell of a CSV column as pandas hands it over: a number, a text that is
\* no number, or NaN for an empty cell.
Num(n) == [k |-> "num", v |-> n]
Text == [k |-> "text", v |-> 0]
NaN == [k |-> "nan", v |-> 0]

\* ------------------------------------------------------------------ inputs
T_a1995 == <<"a", "(", "1", "9", "9", "5", ")">>
T_a == <<" ", "a">>
T_a0000 == <<"a", " ", "(", "0", "0", "0", "0", ")">>

NoGenresListed == <<"(no genres listed)">>

\* the rows a movies file is made of: two rows of movie 1 with different
\* titles and genre fields, a row whose year is 0000 and that lists no genre,
\* a row whose identifier is no number and a row without identifier
RowPool ==
  { [movieId |-> Num(1), title |-> T_a1995, genres |-> <<"G", "|", "H">>],
    [movieId |-> Num(1), title |-> T_a, genres |-> <<"G", "|", "|", "G">>],
    [movieId |-> Num(2), title |-> T_a0000, genres |-> NoGenresListed],
    [movieId |-> Text, title |-> T_a1995, genres |-> <<"H">>],
    [movieId |-> NaN, title |-> T_a, genres |-> <<"G">>] }

\* the ratings file the runs are given: a row with a timestamp, a row
\* without one, and a row with timestamp 0
Rating(ts) == [userId |-> 1, movieId |-> 1, rating |-> Num(4), timestamp |-> ts]

RatingsFile == <<Rating(Num(5)), Rating(NaN), Rating(Num(0))>>

SeqsUpTo(S, n) == UNION { [1..k -> S] : k \in 0..n }

\* The records OMDb holds: what a request for title t answers when it finds
\* something, with the year given (y # None) or omitted.  The record found
\* without a year has no Director and no BoxOffice member.
PayloadWithYear ==
  [Response |-> "True", Title |-> "a", Director |-> "D1", Plot |-> "P1",
   BoxOffice |-> "$1", imdbID |-> "tt1"]
PayloadNoYear == [Response |-> "True", Title |-> "a", Plot |-> "P0", imdbID |-> "tt0"]

OmdbRecord(t, y) == IF y = None THEN PayloadNoYear ELSE PayloadWithYear

\* ------------------------------------------------------------------- state
VARIABLES
  movies_csv,   \* the rows of the movies CSV file (args.movies)
  ratings_csv,  \* the rows of the ratings CSV file (args.ratings)
  cacheFile,    \* the content of OMDB_CACHE_FILE on disk
  db,           \* the committed content of the PostgreSQL store
  pc,           \* where main stands
  run,          \* how many times main has been started
  args,         \* this run's settings: apikey (credential present), schema (file present)
  movies_df,    \* the movie rows after dropna
  cache,        \* the in-memory cache dict
  i,            \* index of the movie row being processed
  loc,          \* the locals of the movie loop body and of query_omdb
  ri,           \* index of the rating row being inserted
  hist,         \* observations of the run: requests made, saves, failures
  norm          \* the normaliser applied to one title on its own

vars ==
  <<movies_csv, ratings_csv, cacheFile, db, pc, run, args, movies_df, cache,
    i, loc, ri, hist, norm>>

\* ------------------------------------------------------------ cache file
\* The file is absent, unreadable, or a JSON object: a set of members
\* <<key, value>>.
FileMissing == [kind |-> "missing", members |-> {}]
FileCorrupt == [kind |-> "corrupt", members |-> {}]

\* json.dump(cache, f): the whole mapping, one member per key
save_cache(c) ==
  [kind |-> "json", members |-> { <<k, c[k]>> : k \in DOMAIN c }]

EmptyCache == [k \in {} |-> PyNone]

\* cache[key] = v
Put(c, key, v) == [k \in DOMAIN c \cup {key} |-> IF k = key THEN v ELSE c[k]]

load_cache_empty(file) == EmptyCache

\* load_cache: {} when the file is absent or does not parse, else the mapping
load_cache(file) ==
  IF file.kind = "json"
  THEN [k \in { m[1] : m \in file.members } |->
          (CHOOSE m \in file.members : m[1] = k)[2]]
  ELSE EmptyCache

\* ------------------------------------------------------------------ store
EmptyDb ==
  [schema |-> FALSE, movies |-> <<>>, genres |-> <<>>, movie_genres |-> <<>>,
   ratings |-> <<>>]

\* ON CONFLICT (movie_id) DO UPDATE with COALESCE(EXCLUDED.x, movies.x): a
\* merge that keeps the stored value where the new one is null
Merged(new, old) == IF new = NULL THEN old ELSE new

upsert_movie_merge(d, movie) ==
  LET hit(r) == r.movie_id = movie.movie_id
  IN IF { k \in 1..Len(d.movies) : hit(d.movies[k]) } = {}
     THEN [d EXCEPT !.movies = Append(@, movie)]
     ELSE [d EXCEPT !.movies =
             [k \in 1..Len(@) |->
                IF hit(@[k])
                THEN [@[k] EXCEPT !.title = movie.title,
                                  !.year = movie.year,
                                  !.director = Merged(movie.director, @),
                                  !.plot = Merged(movie.plot, @),
                                  !.box_office = Merged(movie.box_office, @),
                                  !.imdb_id = Merged(movie.imdb_id, @),
                                  !.omdb_raw = Merged(movie.omdb_raw, @)]
                ELSE @[k]]]

\* upsert_movie: INSERT ... ON CONFLICT (movie_id) DO UPDATE SET every column
upsert_movie(d, movie) ==
  LET hit(r) == r.movie_id = movie.movie_id
  IN IF { k \in 1..Len(d.movies) : hit(d.movies[k]) } = {}
     THEN [d EXCEPT !.movies = Append(@, movie)]
     ELSE [d EXCEPT !.movies =
             [k \in 1..Len(@) |->
                IF hit(@[k])
                THEN [@[k] EXCEPT !.title = movie.title,
                                  !.year = movie.year,
                                  !.director = movie.director,
                                  !.plot = movie.plot,
                                  !.box_office = movie.box_office,
                                  !.imdb_id = movie.imdb_id,
                                  !.omdb_raw = movie.omdb_raw]
                ELSE @[k]]]

\* get_genre_id: the id of the genre of that name, inserted when absent;
\* gives the store and the id
get_genre_id(d, name) ==
  LET hit(r) == r.name = name
      found == { k \in 1..Len(d.genres) : hit(d.genres[k]) }
  IN IF found # {}
     THEN [db |-> d, gid |-> d.genres[CHOOSE k \in found : \A j \in found : k <= j].id]
     ELSE [db |-> [d EXCEPT !.genres = Append(@, [id |-> Len(@) + 1, name |-> name])],
           gid |-> Len(d.genres) + 1]

\* the insert into a movie_genres table that accepts the same pair twice
attach_genre_again(d, movie_id, gid) ==
  [d EXCEPT !.movie_genres = Append(@, [movie_id |-> movie_id, genre_id |-> gid])]

\* an attach that replaces the associations the movie had
attach_genre_replacing(d, movie_id, gid) ==
  [d EXCEPT !.movie_genres =
     Append(SelectSeq(@, LAMBDA r : r.movie_id # movie_id),
            [movie_id |-> movie_id, genre_id |-> gid])]

\* the INSERT INTO movie_genres of upsert_movie_genres: a pair already there
\* raises UniqueViolation, which is caught and rolled back
attach_genre(d, movie_id, gid) ==
  LET hit(r) == r.movie_id = movie_id /\ r.genre_id = gid
  IN IF { k \in 1..Len(d.movie_genres) : hit(d.movie_genres[k]) } # {}
     THEN d
     ELSE [d EXCEPT !.movie_genres =
             Append(@, [movie_id |-> movie_id, genre_id |-> gid])]

\* the uniqueness rule of the ratings table that ON CONFLICT DO NOTHING
\* relies on: one row per (user, movie, timestamp)
ratings_conflict(d, r) ==
  \E k \in 1..Len(d.ratings) :
    /\ d.ratings[k].user_id = r.user_id
    /\ d.ratings[k].movie_id = r.movie_id
    /\ d.ratings[k].timestamp = r.timestamp

\* whether the values of a rating row convert: float(r["rating"]) and
\* int(r.get("timestamp") or 0)
rating_converts(r) ==
  /\ r.rating.k # "text"
  /\ r.timestamp.k = "num"

\* one iteration of load_ratings: the row is inserted unless its values do
\* not convert or a row with the same key is there
insert_rating(d, r) ==
  IF ~rating_converts(r) THEN d
  ELSE LET row == [user_id |-> r.userId, movie_id |-> r.movieId,
                   rating |-> r.rating, timestamp |-> r.timestamp.v]
       IN IF ratings_conflict(d, row) THEN d
          ELSE [d EXCEPT !.ratings = Append(@, row)]

\* genre_list: genres_raw split on "|", without empty segments and without
\* the "(no genres listed)" segment
RECURSIVE split(_, _)
split(s, cur) ==
  IF s = <<>> THEN <<cur>>
  ELSE IF Head(s) = "|" THEN <<cur>> \o split(Tail(s), <<>>)
  ELSE split(Tail(s), Append(cur, Head(s)))

parse_genres(genres_raw) ==
  SelectSeq(split(genres_raw, <<>>),
            LAMBDA g : g # <<>> /\ g # NoGenresListed)

\* movies_df.dropna(subset=["movieId"])
dropna(rows) == SelectSeq(rows, LAMBDA r : r.movieId.k # "nan")

\* the movie_record main builds from the row's values and omdb_data
movie_record(movie_id, raw_title, year, omdb_data) ==
  IF truthy(omdb_data)
  THEN [movie_id |-> movie_id, title |-> raw_title, year |-> year,
        director |-> get(omdb_data.d, "Director"),
        plot |-> get(omdb_data.d, "Plot"),
        box_office |-> get(omdb_data.d, "BoxOffice"),
        imdb_id |-> get(omdb_data.d, "imdbID"),
        omdb_raw |-> json_dumps(omdb_data.d)]
  ELSE [movie_id |-> movie_id, title |-> raw_title, year |-> year,
        director |-> NULL, plot |-> NULL, box_office |-> NULL,
        imdb_id |-> NULL, omdb_raw |-> NULL]

\* ------------------------------------------------------------ initial state
NoLoc ==
  [movie_id |-> 0, raw_title |-> <<>>, year |-> None, title_for_query |-> <<>>,
   genre_list |-> <<>>, cache_key |-> <<>>, omdb_data |-> PyNone, g |-> 0,
   gid |-> 0, route |-> "none", cache0 |-> EmptyCache]

NoCall == [reqs |-> <<>>, answers |-> <<>>, ret |-> "none"]

NoPrev == [ok |-> FALSE, db |-> EmptyDb, apikey |-> FALSE, clean |-> FALSE]

NormIdle == [pc |-> "off", title |-> <<>>, year |-> None, clean |-> <<>>]

InitHist ==
  [runFaults |-> 0, saves |-> 0, abort |-> "",
   lookups |-> <<>>, call |-> NoCall, fileAtStart |-> FileMissing,
   prev |-> NoPrev]

Init ==
  /\ movies_csv \in SeqsUpTo(RowPool, MaxRows)
  /\ ratings_csv = RatingsFile
  /\ cacheFile \in {FileMissing, FileCorrupt}
  /\ db = EmptyDb
  /\ pc = "idle"
  /\ run = 0
  /\ args = [apikey |-> FALSE, schema |-> FALSE]
  /\ movies_df = <<>>
  /\ cache = EmptyCache
  /\ i = 0
  /\ loc = NoLoc
  /\ ri = 0
  /\ hist = InitHist
  /\ norm = NormIdle

\* ------------------------------------------------------------------- main
\* what a run starts from: nothing read, nothing looked up
BeginRun(apikey, schema) ==
  /\ pc \in {"idle", "done", "aborted"}
  /\ run < MaxRuns
  /\ run' = run + 1
  /\ args' = [apikey |-> apikey, schema |-> schema]
  /\ movies_df' = <<>>
  /\ cache' = EmptyCache
  /\ i' = 0
  /\ loc' = NoLoc
  /\ ri' = 0
  /\ hist' = [hist EXCEPT
       !.runFaults = 0, !.saves = 0,
       !.abort = IF schema THEN "" ELSE "schema",
       !.lookups = <<>>, !.call = NoCall, !.fileAtStart = cacheFile,
       !.prev = IF pc = "done"
                THEN [ok |-> TRUE, db |-> db, apikey |-> args.apikey,
                      clean |-> hist.runFaults = 0]
                ELSE NoPrev]
  /\ UNCHANGED <<movies_csv, ratings_csv, cacheFile, db, norm>>

\* main going on to the CSV files without applying the schema
Start_unchecked ==
  /\ \E apikey \in BOOLEAN : BeginRun(apikey, TRUE)
  /\ pc' = "read_csv"

\* main up to the schema check, the schema file being there
Start ==
  /\ \E apikey \in BOOLEAN : BeginRun(apikey, TRUE)
  /\ pc' = "ensure_db_schema"

\* main up to the schema check, the schema file missing: SystemExit
StartMissingSchema ==
  /\ BeginRun(FALSE, FALSE)
  /\ pc' = "aborted"

EnsureDbSchema ==
  /\ pc = "ensure_db_schema"
  /\ db' = [db EXCEPT !.schema = TRUE]
  /\ pc' = "read_csv"
  /\ UNCHANGED <<movies_csv, ratings_csv, cacheFile, run, args, movies_df,
                 cache, i, loc, ri, hist, norm>>

ReadCsv ==
  /\ pc = "read_csv"
  /\ movies_df' = dropna(movies_csv)
  /\ pc' = "load_cache"
  /\ UNCHANGED <<movies_csv, ratings_csv, cacheFile, db, run, args, cache, i,
                 loc, ri, hist, norm>>

LoadCache ==
  /\ pc = "load_cache"
  /\ cache' = load_cache(cacheFile)
  /\ i' = 1
  /\ pc' = "next_row"
  /\ UNCHANGED <<movies_csv, ratings_csv, cacheFile, db, run, args, movies_df,
                 loc, ri, hist, norm>>

\* the locals the loop body computes from a row before it looks at the cache
RowLocals(row) ==
  LET raw_title == strip(row.title)
      year == parse_year_from_title(raw_title)
      title_for_query == clean_title(raw_title)
  IN [NoLoc EXCEPT
        !.movie_id = row.movieId.v,
        !.raw_title = raw_title,
        !.year = year,
        !.title_for_query = title_for_query,
        !.genre_list = parse_genres(row.genres),
        !.cache_key = make_cache_key(title_for_query, year),
        !.cache0 = cache]

InLoop == pc = "next_row" /\ i <= Len(movies_df)

RowsDone ==
  /\ pc = "next_row"
  /\ i > Len(movies_df)
  /\ pc' = "save_cache"
  /\ UNCHANGED <<movies_csv, ratings_csv, cacheFile, db, run, args, movies_df,
                 cache, i, loc, ri, hist, norm>>

\* a row whose identifier does not convert stored as a placeholder movie
InvalidMovieId_placeholder ==
  /\ InLoop
  /\ movies_df[i].movieId.k # "num"
  /\ db' = upsert_movie(db, movie_record(0, strip(movies_df[i].title), None, PyNone))
  /\ i' = i + 1
  /\ UNCHANGED <<movies_csv, ratings_csv, cacheFile, pc, run, args,
                 movies_df, cache, loc, ri, hist, norm>>

\* int(row["movieId"]) raises: the row is skipped
InvalidMovieId ==
  /\ InLoop
  /\ movies_df[i].movieId.k # "num"
  /\ i' = i + 1
  /\ UNCHANGED <<movies_csv, ratings_csv, cacheFile, db, pc, run, args,
                 movies_df, cache, loc, ri, hist, norm>>

CacheHit ==
  /\ InLoop
  /\ movies_df[i].movieId.k = "num"
  /\ LET l == RowLocals(movies_df[i])
     IN /\ l.cache_key \in DOMAIN cache
        /\ loc' = [l EXCEPT !.omdb_data = cache[l.cache_key], !.route = "hit"]
  /\ pc' = "upsert_movie"
  /\ hist' = [hist EXCEPT !.call = NoCall]
  /\ UNCHANGED <<movies_csv, ratings_csv, cacheFile, db, run, args, movies_df,
                 cache, i, ri, norm>>

\* a miss without credential that records the no-result marker
CacheMissNoKeyMarks ==
  /\ InLoop
  /\ movies_df[i].movieId.k = "num"
  /\ LET l == RowLocals(movies_df[i])
     IN /\ l.cache_key \notin DOMAIN cache
        /\ loc' = [l EXCEPT !.route = "skip"]
        /\ cache' = Put(cache, l.cache_key, PyNone)
  /\ ~args.apikey
  /\ pc' = "upsert_movie"
  /\ hist' = [hist EXCEPT !.call = NoCall]
  /\ UNCHANGED <<movies_csv, ratings_csv, cacheFile, db, run, args, movies_df,
                 i, ri, norm>>

\* a miss without credential: no lookup, nothing cached
CacheMissNoKey ==
  /\ InLoop
  /\ movies_df[i].movieId.k = "num"
  /\ LET l == RowLocals(movies_df[i])
     IN /\ l.cache_key \notin DOMAIN cache
        /\ loc' = [l EXCEPT !.route = "skip"]
  /\ ~args.apikey
  /\ pc' = "upsert_movie"
  /\ hist' = [hist EXCEPT !.call = NoCall]
  /\ UNCHANGED <<movies_csv, ratings_csv, cacheFile, db, run, args, movies_df,
                 cache, i, ri, norm>>

CacheMissQuery ==
  /\ InLoop
  /\ movies_df[i].movieId.k = "num"
  /\ LET l == RowLocals(movies_df[i])
     IN /\ l.cache_key \notin DOMAIN cache
        /\ loc' = [l EXCEPT !.route = "query"]
        /\ hist' = [hist EXCEPT !.lookups = Append(@, l.cache_key),
                                !.call = [NoCall EXCEPT !.ret = "pending"]]
  /\ args.apikey
  /\ pc' = "query_omdb"
  /\ UNCHANGED <<movies_csv, ratings_csv, cacheFile, db, run, args, movies_df,
                 cache, i, ri, norm>>

\* an exception that nothing catches ends the run: the open transaction is
\* lost, the committed store and the cache file stay as they are
Abort(cause) ==
  /\ pc' = "aborted"
  /\ hist' = [hist EXCEPT !.runFaults = 1,
                          !.abort = cause]
  /\ UNCHANGED <<movies_csv, ratings_csv, cacheFile, db, run, args, movies_df,
                 cache, i, loc, ri, norm>>

\* -------------------------------------------------------------- query_omdb
\* params["y"]: the year the first request carries, None when it carries none
request_year_present(year) == year

request_year(year) == IF truthy_year(year) THEN year ELSE None

\* the request the call is about to send
NextRequest ==
  [t |-> loc.title_for_query,
   y |-> IF pc = "query_omdb" THEN request_year(loc.year) ELSE None]

Sent(answer, ret) ==
  [hist EXCEPT !.call = [reqs |-> Append(@.reqs, NextRequest),
                         answers |-> Append(@.answers, answer),
                         ret |-> ret]]

\* main caching only the answers that are truthy
Returned_uncached(v) ==
  /\ cache' = IF truthy(v) THEN Put(cache, loc.cache_key, v) ELSE cache
  /\ loc' = [loc EXCEPT !.omdb_data = IF truthy(v) THEN v ELSE PyNone]
  /\ pc' = "upsert_movie"

\* query_omdb returned v: main caches a truthy answer and uses it, and caches
\* None for any other
Returned(v) ==
  /\ cache' = Put(cache, loc.cache_key, IF truthy(v) THEN v ELSE PyNone)
  /\ loc' = [loc EXCEPT !.omdb_data = IF truthy(v) THEN v ELSE PyNone]
  /\ pc' = "upsert_movie"

\* a successful lookup followed at once by a save of the cache
OmdbFoundAndSave ==
  /\ pc \in {"query_omdb", "query_omdb_retry"}
  /\ Returned(PyDict(OmdbRecord(NextRequest.t, NextRequest.y)))
  /\ hist' = [Sent("True", "data") EXCEPT !.saves = @ + 1]
  /\ cacheFile' = save_cache(cache')
  /\ UNCHANGED <<movies_csv, ratings_csv, db, run, args, movies_df, i, ri, norm>>

\* a request answered with Response "True": query_omdb returns the data
OmdbFound ==
  /\ pc \in {"query_omdb", "query_omdb_retry"}
  /\ Returned(PyDict(OmdbRecord(NextRequest.t, NextRequest.y)))
  /\ hist' = Sent("True", "data")
  /\ UNCHANGED <<movies_csv, ratings_csv, cacheFile, db, run, args, movies_df,
                 i, ri, norm>>

\* the first request answered without Response "True", the request having
\* carried a year: the year is dropped and a second request follows
OmdbNotFoundRetry ==
  /\ pc = "query_omdb"
  /\ NextRequest.y # None
  /\ pc' = "query_omdb_retry"
  /\ hist' = Sent("False", "pending")
  /\ UNCHANGED <<movies_csv, ratings_csv, cacheFile, db, run, args, movies_df,
                 cache, i, loc, ri, norm>>

\* a request answered without Response "True" and no request left to make:
\* query_omdb returns None
OmdbNotFound ==
  /\ \/ pc = "query_omdb" /\ NextRequest.y = None
     \/ pc = "query_omdb_retry"
  /\ Returned(PyNone)
  /\ hist' = Sent("False", "absent")
  /\ UNCHANGED <<movies_csv, ratings_csv, cacheFile, db, run, args, movies_df,
                 i, ri, norm>>

\* session.get or resp.json() raises and main has no handler around the call
OmdbRaisesUncaught ==
  /\ pc \in {"query_omdb", "query_omdb_retry"}
  /\ Abort("query_omdb")

\* main catching the exception of a lookup without recording anything
OmdbRaises_unmarked ==
  /\ pc \in {"query_omdb", "query_omdb_retry"}
  /\ pc' = "upsert_movie"
  /\ hist' = Sent("error", "raised")
  /\ UNCHANGED <<movies_csv, ratings_csv, cacheFile, db, run, args, movies_df,
                 cache, i, loc, ri, norm>>

\* session.get or resp.json() raises: query_omdb does not catch it, main does
OmdbRaises ==
  /\ pc \in {"query_omdb", "query_omdb_retry"}
  /\ cache' = Put(cache, loc.cache_key, PyNone)
  /\ pc' = "upsert_movie"
  /\ hist' = Sent("error", "raised")
  /\ UNCHANGED <<movies_csv, ratings_csv, cacheFile, db, run, args, movies_df,
                 i, loc, ri, norm>>

\* ------------------------------------------------------ persisting the row
RowDone ==
  /\ pc' = "next_row"
  /\ i' = i + 1
  /\ loc' = NoLoc

UpsertMovie ==
  /\ pc = "upsert_movie"
  /\ db' = upsert_movie(db, movie_record(loc.movie_id, loc.raw_title, loc.year,
                                         loc.omdb_data))
  /\ IF loc.genre_list # <<>>
     THEN /\ pc' = "get_genre_id"
          /\ loc' = [loc EXCEPT !.g = 1]
          /\ i' = i
     ELSE RowDone
  /\ UNCHANGED <<movies_csv, ratings_csv, cacheFile, run, args, movies_df,
                 cache, ri, hist, norm>>

\* the store fails the upsert: nothing in upsert_movie or main catches it
UpsertMovieFails == pc = "upsert_movie" /\ Abort("upsert_movie")

\* get_genre_id handing out the id of a genre row it has not committed
GetGenreId_uncommitted ==
  /\ pc = "get_genre_id"
  /\ loc' = [loc EXCEPT !.gid = get_genre_id(db, loc.genre_list[loc.g]).gid]
  /\ pc' = "attach_genre"
  /\ UNCHANGED <<movies_csv, ratings_csv, cacheFile, db, run, args, movies_df,
                 cache, i, ri, hist, norm>>

GetGenreId ==
  /\ pc = "get_genre_id"
  /\ LET r == get_genre_id(db, loc.genre_list[loc.g])
     IN /\ db' = r.db
        /\ loc' = [loc EXCEPT !.gid = r.gid]
  /\ pc' = "attach_genre"
  /\ UNCHANGED <<movies_csv, ratings_csv, cacheFile, run, args, movies_df,
                 cache, i, ri, hist, norm>>

\* the store fails the lookup or the insert: nothing catches it
GetGenreIdFails == pc = "get_genre_id" /\ Abort("get_genre_id")

\* upsert_movie_genres leaving its loop at the first genre already attached
AttachGenre_stops ==
  /\ pc = "attach_genre"
  /\ db' = attach_genre(db, loc.movie_id, loc.gid)
  /\ IF loc.g < Len(loc.genre_list) /\ db' # db
     THEN /\ pc' = "get_genre_id"
          /\ loc' = [loc EXCEPT !.g = @ + 1]
          /\ i' = i
     ELSE RowDone
  /\ UNCHANGED <<movies_csv, ratings_csv, cacheFile, run, args, movies_df,
                 cache, ri, hist, norm>>

\* the insert of the association, or its UniqueViolation caught and rolled back
AttachGenre ==
  /\ pc = "attach_genre"
  /\ db' = attach_genre(db, loc.movie_id, loc.gid)
  /\ IF loc.g < Len(loc.genre_list)
     THEN /\ pc' = "get_genre_id"
          /\ loc' = [loc EXCEPT !.g = @ + 1]
          /\ i' = i
     ELSE RowDone
  /\ UNCHANGED <<movies_csv, ratings_csv, cacheFile, run, args, movies_df,
                 cache, ri, hist, norm>>

\* the store fails the insert with an error that is no UniqueViolation
AttachGenreFails == pc = "attach_genre" /\ Abort("attach_genre")

\* --------------------------------------------------- after the movie loop
SaveCache ==
  /\ pc = "save_cache"
  /\ cacheFile' = save_cache(cache)
  /\ hist' = [hist EXCEPT !.saves = @ + 1]
  /\ ri' = 1
  /\ pc' = "load_ratings"
  /\ UNCHANGED <<movies_csv, ratings_csv, db, run, args, movies_df, cache, i,
                 loc, norm>>

InsertRating ==
  /\ pc = "load_ratings"
  /\ ri <= Len(ratings_csv)
  /\ db' = insert_rating(db, ratings_csv[ri])
  /\ ri' = ri + 1
  /\ UNCHANGED <<movies_csv, ratings_csv, cacheFile, pc, run, args, movies_df,
                 cache, i, loc, hist, norm>>

\* load_ratings without handler around the insert: a store failure ends the run
InsertRatingFails_aborts ==
  /\ pc = "load_ratings"
  /\ ri <= Len(ratings_csv)
  /\ Abort("load_ratings")

\* the store fails the insert: caught, rolled back, the row is skipped
InsertRatingFails ==
  /\ pc = "load_ratings"
  /\ ri <= Len(ratings_csv)
  /\ hist' = [hist EXCEPT !.runFaults = 1]
  /\ ri' = ri + 1
  /\ UNCHANGED <<movies_csv, ratings_csv, cacheFile, db, pc, run, args,
                 movies_df, cache, i, loc, norm>>

Finish ==
  /\ pc = "load_ratings"
  /\ ri > Len(ratings_csv)
  /\ pc' = "done"
  /\ UNCHANGED <<movies_csv, ratings_csv, cacheFile, db, run, args, movies_df,
                 cache, i, loc, ri, hist, norm>>

Next ==
  \/ Start
  \/ StartMissingSchema
  \/ EnsureDbSchema
  \/ ReadCsv
  \/ LoadCache
  \/ RowsDone
  \/ InvalidMovieId
  \/ CacheHit
  \/ CacheMissNoKey
  \/ CacheMissQuery
  \/ OmdbFound
  \/ OmdbNotFoundRetry
  \/ OmdbNotFound
  \/ OmdbRaises
  \/ UpsertMovie
  \/ UpsertMovieFails
  \/ GetGenreId
  \/ GetGenreIdFails
  \/ AttachGenre
  \/ AttachGenreFails
  \/ SaveCache
  \/ InsertRating
  \/ InsertRatingFails
  \/ Finish

Spec == Init /\ [][Next]_vars

\* ------------------------------------------------- the normaliser on its own
\* Titles built from pieces that make year patterns, broken patterns and
\* patterns that only appear once another one is removed.
Tokens ==
  { <<"a">>, <<" ">>, <<"(", "1", "9", "9", "5", ")">>,
    <<"(", "0", "0", "4", "2", ")">>, <<"(", "1", "9">>, <<"9", "5", ")">>,
    <<"(">>, <<"1">> }

RECURSIVE Flatten(_)
Flatten(ts) == IF ts = <<>> THEN <<>> ELSE Head(ts) \o Flatten(Tail(ts))

Titles == { Flatten(ts) : ts \in SeqsUpTo(Tokens, MaxTokens) }

InitNorm ==
  /\ movies_csv = <<>>
  /\ ratings_csv = <<>>
  /\ cacheFile = FileMissing
  /\ db = EmptyDb
  /\ pc = "off"
  /\ run = 0
  /\ args = [apikey |-> FALSE, schema |-> FALSE]
  /\ movies_df = <<>>
  /\ cache = EmptyCache
  /\ i = 0
  /\ loc = NoLoc
  /\ ri = 0
  /\ hist = InitHist
  /\ \E t \in Titles : norm = [NormIdle EXCEPT !.pc = "start", !.title = t]

NormFrame ==
  UNCHANGED <<movies_csv, ratings_csv, cacheFile, db, pc, run, args, movies_df,
              cache, i, loc, ri, hist>>

ParseYear ==
  /\ norm.pc = "start"
  /\ norm' = [norm EXCEPT !.pc = "parsed",
                          !.year = parse_year_from_title(norm.title)]
  /\ NormFrame

CleanTitle ==
  /\ norm.pc = "parsed"
  /\ norm' = [norm EXCEPT !.pc = "cleaned", !.clean = clean_title(norm.title)]
  /\ NormFrame

NextNorm == ParseYear \/ CleanTitle

SpecNorm == InitNorm /\ [][NextNorm]_vars

\* ------------------------------------------------------------------ claims
\* the positions of title t that lie inside a parenthesized 4-digit pattern
Covered(t) ==
  { j \in 1..Len(t) : \E p \in 1..Len(t) : MOVIE_YEAR_RE(t, p) /\ p <= j /\ j <= p + 5 }

\* the characters of t at the positions K, in order
Pick(t, K) ==
  [n \in 1..Cardinality(K) |->
     t[CHOOSE k \in K : Cardinality({ j \in K : j < k }) = n - 1]]

\* u without its leading and trailing whitespace
Trimmed(u) ==
  LET solid == { k \in 1..Len(u) : u[k] \notin Whitespace }
  IN IF solid = {} THEN <<>>
     ELSE SubSeq(u, CHOOSE k \in solid : \A j \in solid : k <= j,
                    CHOOSE k \in solid : \A j \in solid : j <= k)

PatternStarts(t) == { p \in 1..Len(t) : MOVIE_YEAR_RE(t, p) }

\* C3 as stated: clean_title removes only the first parenthesized 4-digit
\* pattern, the one parse_year_from_title reads, and trims; a later pattern
\* stays in place.
C3_RemovesOnlyFirst ==
  norm.pc = "cleaned" =>
    norm.clean =
      Trimmed(Pick(norm.title,
                   (1..Len(norm.title)) \
                     { j \in 1..Len(norm.title) :
                         /\ search(norm.title) # 0
                         /\ search(norm.title) <= j
                         /\ j <= search(norm.title) + 5 }))

\* C3 amended: clean_title removes every parenthesized 4-digit pattern of the
\* title (the first one, whose digits parse_year_from_title returns, and every
\* later one), then trims surrounding whitespace; a title with no such pattern
\* is returned unchanged apart from trimming.
C3_RemovesEveryPattern ==
  norm.pc = "cleaned" =>
    /\ norm.clean =
         Trimmed(Pick(norm.title, (1..Len(norm.title)) \ Covered(norm.title)))
    /\ norm.year # None =>
         /\ search(norm.title) \in Covered(norm.title)
         /\ norm.year = int(SubSeq(norm.title, search(norm.title) + 1,
                                   search(norm.title) + 4))
    /\ norm.year = None => norm.clean = Trimmed(norm.title)

\* C3 witness: a title with two patterns has been cleaned, and neither is left
C3_Witness ==
  /\ norm.pc = "cleaned"
  /\ Cardinality(PatternStarts(norm.title)) = 2
  /\ norm.year = 1995
  /\ norm.clean = <<"a">>

\* ---------------------------------------------------------- claims on main
\* the row of the loop body that is being processed
Row == movies_df[i]

\* the rows of the movies table with that identifier
MovieRows(d, movie_id) ==
  { k \in 1..Len(d.movies) : d.movies[k].movie_id = movie_id }

\* the association rows of that movie with the genre of that name
Associations(d, movie_id, name) ==
  { k \in 1..Len(d.movie_genres) :
      /\ d.movie_genres[k].movie_id = movie_id
      /\ \E n \in 1..Len(d.genres) :
           /\ d.genres[n].name = name
           /\ d.genres[n].id = d.movie_genres[k].genre_id }

\* every genre of the list has exactly one association with the movie
GenresAttached(d, movie_id, genre_list) ==
  \A n \in 1..Len(genre_list) :
    Cardinality(Associations(d, movie_id, genre_list[n])) = 1

\* the step that ends the processing of a row
RowEnds == loc.route # "none" /\ i' = i + 1 /\ pc' = "next_row"

\* the step in which upsert_movie commits
Upserted == pc = "upsert_movie" /\ pc' # "aborted"

\* text is the decimal text of n: digits only, no leading zero
IsDecimalOf(text, n) ==
  /\ Len(text) >= 1
  /\ \A k \in 1..Len(text) : text[k] \in Digits
  /\ Len(text) > 1 => text[1] # "0"
  /\ int(text) = n

KeySuffix == SubSeq(loc.cache_key, Len(clean_title(strip(Row.title))) + 1,
                    Len(loc.cache_key))

KeyPrefix == SubSeq(loc.cache_key, 1, Len(clean_title(strip(Row.title))))

\* C1: a run of main that completes right after a completed run, with the
\* same rows, the same credential setting and no store fault in either run,
\* leaves movies, genres, associations and ratings as the first run left them.
C1_SecondRunChangesNothing ==
  ( /\ pc = "done"
    /\ hist.prev.ok
    /\ hist.prev.apikey = args.apikey
    /\ hist.prev.clean
    /\ hist.runFaults = 0 )
  => db = hist.prev.db

\* C1 witness: a second run with the credential has completed on a store
\* that holds an enriched movie, two associations and the two valid ratings
C1_Witness ==
  /\ pc = "done"
  /\ hist.prev.ok /\ hist.prev.apikey /\ args.apikey
  /\ hist.prev.clean /\ hist.runFaults = 0
  /\ \E k \in 1..Len(db.movies) : db.movies[k].director = "D1"
  /\ Len(db.movie_genres) = 2
  /\ Len(db.ratings) = 2

\* C2 as stated: the cache key is the cleaned title followed by the decimal
\* text of the parsed year, and the cleaned title alone when no year was parsed.
C2_KeyEndsEmptyWithoutYear ==
  loc.route # "none" =>
    /\ KeyPrefix = clean_title(strip(Row.title))
    /\ IF parse_year_from_title(strip(Row.title)) = None
       THEN KeySuffix = <<>>
       ELSE IsDecimalOf(KeySuffix, parse_year_from_title(strip(Row.title)))

\* C2 amended: the cache key is the cleaned title followed by the decimal
\* text of the parsed year when a year was parsed, and the cleaned title
\* followed by the four characters "None" when no year was parsed.
C2_KeyEndsNoneWithoutYear ==
  loc.route # "none" =>
    /\ KeyPrefix = clean_title(strip(Row.title))
    /\ IF parse_year_from_title(strip(Row.title)) = None
       THEN KeySuffix = <<"N", "o", "n", "e">>
       ELSE IsDecimalOf(KeySuffix, parse_year_from_title(strip(Row.title)))

\* C2 witness: a row without year is being processed under the key "aNone"
C2_Witness ==
  /\ loc.route # "none"
  /\ loc.year = None
  /\ loc.cache_key = <<"a", "N", "o", "n", "e">>

\* C4: in a call of query_omdb the first request carries the year whenever a
\* year was supplied; a second request is made exactly when the first answer
\* was not-found and a year was supplied, and it omits the year; there are at
\* most two requests; the result is the first successful answer, absent when
\* every attempt was not-found, and a transport error ends the call unretried.
C4_QueryOmdb ==
  (loc.route = "query" /\ hist.call.reqs # <<>>) =>
    LET c == hist.call
        n == Len(c.reqs)
    IN /\ c.reqs[1].t = loc.title_for_query
       /\ loc.year # None => c.reqs[1].y = loc.year
       /\ n <= 2
       /\ c.ret # "pending" =>
            (n = 2 <=> (c.answers[1] = "False" /\ loc.year # None))
       /\ n = 2 => c.reqs[2].y = None /\ c.reqs[2].t = loc.title_for_query
       /\ c.ret = "data" <=> c.answers[n] = "True"
       /\ c.ret = "raised" <=> c.answers[n] = "error"
       /\ c.ret = "absent" =>
            \A k \in 1..n : c.answers[k] = "False"
       /\ \A k \in 1..(n - 1) : c.answers[k] = "False"

\* C5 as stated: once the schema check has passed nothing terminates the run.
C5_NothingTerminatesRun == pc = "aborted" => hist.abort = "schema"

\* C5 amended: once the schema check has passed, a failed external lookup
\* (exception or not-found), a duplicate genre association and a failed rating
\* insert are recovered locally and main goes on; a store failure in the movie
\* upsert, in the genre lookup-or-create or in the genre attach (other than a
\* duplicate) is not caught and ends the run, before the cache is saved.
C5_RecoveredOrUncaught ==
  [][ /\ pc \in {"query_omdb", "query_omdb_retry"} =>
           /\ pc' \in {"query_omdb_retry", "upsert_movie"}
           /\ i' = i
      /\ pc = "load_ratings" =>
           /\ pc' \in {"load_ratings", "done"}
           /\ ri <= Len(ratings_csv) => ri' = ri + 1 /\ pc' = "load_ratings"
      /\ ( /\ pc = "attach_genre"
           /\ Associations(db, loc.movie_id, loc.genre_list[loc.g]) # {}
           /\ hist'.abort = hist.abort ) =>
           /\ pc' \in {"get_genre_id", "next_row"}
           /\ db' = db
      /\ (pc' = "aborted" /\ pc \notin {"aborted", "idle", "done"}) =>
           /\ pc \in {"upsert_movie", "get_genre_id", "attach_genre"}
           /\ hist'.abort = pc
           /\ hist'.saves = 0
           /\ cacheFile' = cacheFile
    ]_vars

\* C5 witness: a run has finished although a lookup of it ended without
\* result and one of its rating inserts failed
C5_Witness ==
  /\ pc = "done"
  /\ hist.runFaults = 1
  /\ Len(hist.lookups) > 0
  /\ \E k \in DOMAIN cache : cache[k] = PyNone

\* the entries of the cache file this run started from
SavedKeys == { m[1] : m \in hist.fileAtStart.members }

ValueIn(file, key) == (CHOOSE m \in file.members : m[1] = key)[2]

SavedValue(key) == ValueIn(hist.fileAtStart, key)

\* the one row of the movies table with that identifier
TheMovie(d, movie_id) == d.movies[CHOOSE k \in MovieRows(d, movie_id) : TRUE]

\* row r carries the enrichment of the cached or looked-up value v: the
\* payload's members when v is a payload, nulls when v is the no-result marker
EnrichedFrom(r, v) ==
  IF v.t = "dict"
  THEN /\ r.director = (IF "Director" \in DOMAIN v.d THEN v.d["Director"] ELSE NULL)
       /\ r.plot = (IF "Plot" \in DOMAIN v.d THEN v.d["Plot"] ELSE NULL)
       /\ r.box_office = (IF "BoxOffice" \in DOMAIN v.d THEN v.d["BoxOffice"] ELSE NULL)
       /\ r.imdb_id = (IF "imdbID" \in DOMAIN v.d THEN v.d["imdbID"] ELSE NULL)
       /\ r.omdb_raw # NULL
  ELSE /\ r.director = NULL /\ r.plot = NULL /\ r.box_office = NULL
       /\ r.imdb_id = NULL /\ r.omdb_raw = NULL

\* the store holds, after the upsert of the row in hand, one row for its
\* movie with the given title, the parsed year and the enrichment of v
StoredAs(d, title, v) ==
  /\ Cardinality(MovieRows(d, Row.movieId.v)) = 1
  /\ TheMovie(d, Row.movieId.v).title = title
  /\ TheMovie(d, Row.movieId.v).year = parse_year_from_title(Row.title)
  /\ EnrichedFrom(TheMovie(d, Row.movieId.v), v)

\* C6: an entry (payload or no-result marker) that the cache file held when
\* the run started is never looked up again in that run, credential or not,
\* and a row with that key is upserted with the cached value.
C6_SavedEntryReused ==
  [][ /\ \A n \in 1..Len(hist'.lookups) : hist'.lookups[n] \notin SavedKeys'
      /\ (loc'.route # "none" /\ loc'.cache_key \in SavedKeys') =>
           /\ loc'.route = "hit"
           /\ loc'.omdb_data = ValueIn(hist'.fileAtStart, loc'.cache_key)
           /\ hist'.call = NoCall
      /\ (loc.route # "none" /\ Upserted /\ loc.cache_key \in SavedKeys) =>
           StoredAs(db', strip(Row.title), SavedValue(loc.cache_key))
    ]_vars

\* C6 witness: in a second run with the credential set, a row whose key the
\* file held with the no-result marker has been upserted without a lookup
C6_Witness ==
  /\ run = 2
  /\ args.apikey
  /\ pc = "get_genre_id"
  /\ loc.gid = 0
  /\ loc.cache_key \in SavedKeys
  /\ SavedValue(loc.cache_key) = PyNone
  /\ hist.lookups = <<>>
  /\ Cardinality(MovieRows(db, loc.movie_id)) = 1
  /\ TheMovie(db, loc.movie_id).director = NULL

\* what C7 says of a row with a valid identifier that misses the cache while
\* no credential is set, the stored title being the given one
MissWithoutCredential(title) ==
  /\ loc'.route = "skip" =>
       /\ ~args'.apikey
       /\ hist'.lookups = <<>>
       /\ hist'.call = NoCall
       /\ cache' = loc'.cache0
       /\ loc'.cache_key \notin DOMAIN cache'
  /\ (loc.route = "skip" /\ Upserted) => StoredAs(db', title, PyNone)
  /\ (loc.route = "skip" /\ RowEnds) =>
       /\ GenresAttached(db', loc.movie_id, parse_genres(Row.genres))
       /\ cache' = cache

\* C7 as stated: on a miss without credential no lookup is made, the cache
\* is left unchanged, and the movie is upserted with the raw unmodified title,
\* the parsed year, null enrichment and one association per parsed genre.
C7_StoresRawTitle == [][MissWithoutCredential(Row.title)]_vars

\* C7 amended: on a miss without credential no lookup is made, the cache is
\* left unchanged, and the movie is upserted with the title trimmed of its
\* surrounding whitespace (the year pattern left in it), the parsed year, null
\* enrichment and one association per parsed genre.
C7_StoresTrimmedTitle == [][MissWithoutCredential(strip(Row.title))]_vars

\* C7 witness: without credential, the row "a(1995)" of movie 1 has been
\* upserted bare and its first genre attached, the cache still empty
C7_Witness ==
  /\ loc.route = "skip"
  /\ pc = "get_genre_id"
  /\ loc.g = 2
  /\ cache = EmptyCache
  /\ loc.movie_id = 1
  /\ Cardinality(MovieRows(db, 1)) = 1
  /\ TheMovie(db, 1).title = T_a1995
  /\ TheMovie(db, 1).year = 1995
  /\ TheMovie(db, 1).omdb_raw = NULL
  /\ Len(db.movie_genres) = 1

\* C8: on a miss with a credential, a lookup that returns absent or raises
\* stores the no-result marker under the row's key, and one that succeeds
\* stores the payload; the movie is then upserted with null enrichment,
\* respectively with the payload's fields, unless the store fails; its genres
\* are attached and the loop goes on to the next row.
C8_LookupOutcomeCached ==
  [][ /\ (loc'.route = "query" /\ hist'.call.ret # "pending") =>
           LET v == IF hist'.call.ret = "data"
                    THEN PyDict(OmdbRecord(
                           hist'.call.reqs[Len(hist'.call.reqs)].t,
                           hist'.call.reqs[Len(hist'.call.reqs)].y))
                    ELSE PyNone
           IN /\ DOMAIN cache' = DOMAIN loc'.cache0 \cup {loc'.cache_key}
              /\ loc'.cache_key \notin DOMAIN loc'.cache0
              /\ cache'[loc'.cache_key] = v
              /\ \A k \in DOMAIN loc'.cache0 : cache'[k] = loc'.cache0[k]
              /\ loc'.omdb_data = v
      /\ (pc \in {"query_omdb", "query_omdb_retry"}
            /\ hist'.call.ret # "pending") =>
           /\ pc' = "upsert_movie"
           /\ i' = i
      /\ (loc.route = "query" /\ Upserted) =>
           StoredAs(db', strip(Row.title), cache[loc.cache_key])
      /\ (loc.route = "query" /\ RowEnds) =>
           GenresAttached(db', loc.movie_id, parse_genres(Row.genres))
    ]_vars

\* C8 witness: a lookup raised, the marker is cached, the movie is stored
\* bare and its first genre is attached
C8_Witness ==
  /\ loc.route = "query"
  /\ hist.call.ret = "raised"
  /\ pc = "get_genre_id"
  /\ loc.g = 2
  /\ cache[loc.cache_key] = PyNone
  /\ Cardinality(MovieRows(db, loc.movie_id)) = 1
  /\ TheMovie(db, loc.movie_id).omdb_raw = NULL
  /\ Len(db.movie_genres) = 1

BeforeSave ==
  {"ensure_db_schema", "read_csv", "load_cache", "next_row", "query_omdb",
   "query_omdb_retry", "upsert_movie", "get_genre_id", "attach_genre",
   "save_cache"}

\* C9: a run writes the cache file at most once, and exactly once when it
\* completes: the write happens after the last movie row and before the first
\* rating insert and stores the whole cache; until then, and in a run that
\* stops in the movie loop, the file is as it was when the run started.
C9_SavedOnceAfterLoop ==
  [][ /\ hist'.saves <= 1
      /\ (cacheFile' # cacheFile \/ hist'.saves > hist.saves) =>
           /\ pc = "save_cache"
           /\ i > Len(movies_df)
           /\ ri = 0
           /\ db'.ratings = db.ratings
           /\ cacheFile' = [kind |-> "json",
                            members |-> { <<k, cache[k]>> : k \in DOMAIN cache }]
      /\ pc' \in BeforeSave =>
           /\ hist'.saves = 0
           /\ cacheFile' = hist'.fileAtStart
           /\ ri' = 0
      /\ pc' = "aborted" => cacheFile' = hist'.fileAtStart /\ hist'.saves = 0
      /\ pc' \in {"load_ratings", "done"} => hist'.saves = 1
    ]_vars

\* C9 witness: the loop is over, the file has just been written with an
\* entry learned in this run, and no rating has been inserted yet
C9_Witness ==
  /\ pc = "load_ratings"
  /\ ri = 1
  /\ hist.saves = 1
  /\ cacheFile # hist.fileAtStart
  /\ cacheFile.members # {}
  /\ Len(hist.lookups) > 0

\* C10: after upsert_movie the store holds exactly one row for the record's
\* identifier and every column of it equals the record's value, nulls
\* included, whatever the row held before; the other rows are untouched.
C10_UpsertOverwrites ==
  [][ Upserted =>
        LET rec == movie_record(loc.movie_id, loc.raw_title, loc.year,
                                loc.omdb_data)
        IN /\ Cardinality(MovieRows(db', rec.movie_id)) = 1
           /\ TheMovie(db', rec.movie_id) = rec
           /\ Len(db'.movies) =
                Len(db.movies) + (IF MovieRows(db, rec.movie_id) = {} THEN 1 ELSE 0)
           /\ \A k \in 1..Len(db.movies) :
                db.movies[k].movie_id # rec.movie_id => db'.movies[k] = db.movies[k]
    ]_vars

\* C10 witness: movie 1 was upserted enriched for its first row and has just
\* been upserted again for its second row, bare: the enrichment is gone
C10_Witness ==
  /\ run = 1
  /\ i = 2
  /\ Len(movies_df) = 2
  /\ movies_df[1].title = T_a1995 /\ movies_df[1].movieId = Num(1)
  /\ movies_df[2].title = T_a /\ movies_df[2].movieId = Num(1)
  /\ pc = "get_genre_id" /\ loc.gid = 0
  /\ <<"a", "1", "9", "9", "5">> \in DOMAIN cache
  /\ truthy(cache[<<"a", "1", "9", "9", "5">>])
  /\ loc.omdb_data = PyNone
  /\ Cardinality(MovieRows(db, 1)) = 1
  /\ TheMovie(db, 1).title = <<"a">>
  /\ TheMovie(db, 1).director = NULL
  /\ TheMovie(db, 1).omdb_raw = NULL

\* the association rows of that movie with that genre id
Pairs(d, movie_id, gid) ==
  { k \in 1..Len(d.movie_genres) :
      d.movie_genres[k].movie_id = movie_id /\ d.movie_genres[k].genre_id = gid }

\* C11: the insert of a (movie, genre) pair that is already associated, when
\* the store answers it with the uniqueness violation, leaves exactly one
\* association row for the pair and every committed row as it was, raises
\* nothing to the caller, and upsert_movie_genres goes on with the next genre
\* of the list (or returns when the list is exhausted).
C11_DuplicateAttachSkipped ==
  [][ ( /\ pc = "attach_genre"
        /\ Pairs(db, loc.movie_id, loc.gid) # {}
        /\ pc' # "aborted" ) =>
        /\ Cardinality(Pairs(db', loc.movie_id, loc.gid)) = 1
        /\ db' = db
        /\ hist' = hist
        /\ IF loc.g < Len(loc.genre_list)
           THEN /\ pc' = "get_genre_id"
                /\ loc' = [loc EXCEPT !.g = loc.g + 1]
                /\ i' = i
           ELSE pc' = "next_row" /\ i' = i + 1
    ]_vars

\* C11 witness: both genres of movie 1 were associated already, the first
\* genre of its list has been attached again and the second one is next
C11_Witness ==
  /\ pc = "get_genre_id"
  /\ loc.g = 2
  /\ loc.movie_id = 1
  /\ Len(db.movie_genres) = 2
  /\ Len(db.genres) = 2
  /\ Cardinality(Pairs(db, 1, db.genres[1].id)) = 1
  /\ Cardinality(Pairs(db, 1, db.genres[2].id)) = 1

\* where main stands once ensure_db_schema has returned
AfterSchema ==
  {"read_csv", "load_cache", "next_row", "query_omdb", "query_omdb_retry",
   "upsert_movie", "get_genre_id", "attach_genre", "save_cache", "load_ratings"}

\* the step is a data operation: a table changes, a lookup is started, the
\* cache file is read or written
DataOperation ==
  \/ db'.movies # db.movies
  \/ db'.genres # db.genres
  \/ db'.movie_genres # db.movie_genres
  \/ db'.ratings # db.ratings
  \/ Len(hist'.lookups) > Len(hist.lookups)
  \/ pc = "load_cache"
  \/ cacheFile' # cacheFile

\* C12: every data operation (movie upsert, genre creation, genre attach,
\* rating insert, external lookup, cache read or write) is a step of a run
\* whose schema statements have been applied and committed: main gets past
\* ensure_db_schema only by the step that commits the schema; a run started
\* without schema definition is aborted at once, the store, the cache file
\* and the cache untouched and no lookup made.
C12_SchemaFirst ==
  [][ /\ DataOperation => pc \in AfterSchema /\ db.schema /\ args.schema
      /\ (pc' \in AfterSchema /\ pc \notin AfterSchema) =>
           /\ pc = "ensure_db_schema"
           /\ db'.schema
           /\ [db' EXCEPT !.schema = db.schema] = db
      /\ pc' = "ensure_db_schema" => ~DataOperation /\ run' = run + 1
      /\ (run' = run + 1 /\ ~args'.schema) =>
           /\ pc' = "aborted"
           /\ db' = db
           /\ cacheFile' = cacheFile
           /\ cache' = EmptyCache
           /\ hist'.lookups = <<>>
      /\ pc = "aborted" => run' = run + 1
    ]_vars

\* C12 witness: a run that found no schema definition stands aborted on the
\* store and the cache file an earlier, complete run left
C12_Witness ==
  /\ pc = "aborted"
  /\ hist.abort = "schema"
  /\ ~args.schema
  /\ run = 2
  /\ db.schema
  /\ Len(db.movies) > 0
  /\ Len(db.ratings) > 0
  /\ cacheFile.kind = "json"
  /\ cache = EmptyCache

\* the positions of the movies file whose row has an identifier
WithIdentifier == { j \in 1..Len(movies_csv) : movies_csv[j].movieId.k # "nan" }

\* C13: a movie row whose identifier is missing never enters the loop, and
\* one whose identifier is no number is passed over by it: the step writes no
\* movie, genre or association row, makes no lookup and leaves the cache and
\* the cache file as they are; the loop then stands at the next row as it
\* stands at any row, and the rows with an identifier are taken in file order.
C13_InvalidIdentifierSkipped ==
  [][ /\ (InLoop /\ Row.movieId.k # "num") =>
           /\ db' = db
           /\ cache' = cache
           /\ cacheFile' = cacheFile
           /\ hist' = hist
           /\ movies_df' = movies_df
           /\ loc' = NoLoc /\ loc = NoLoc
           /\ pc' = "next_row"
           /\ i' = i + 1
      /\ pc' \in (AfterSchema \ {"read_csv"}) =>
           /\ movies_df' = Pick(movies_csv', WithIdentifier')
           /\ \A k \in 1..Len(movies_df') : movies_df'[k].movieId.k # "nan"
      /\ (pc' \in {"upsert_movie", "query_omdb"} /\ pc = "next_row") =>
           /\ movies_df[i].movieId.k = "num"
           /\ loc'.movie_id = movies_df[i].movieId.v
           /\ loc'.raw_title = strip(movies_df[i].title)
           /\ loc'.genre_list = parse_genres(movies_df[i].genres)
    ]_vars

\* C13 witness: the first row, whose identifier is no number, was passed
\* over and left no trace; the row of movie 1 after it has been looked up,
\* stored and given its two genres
C13_Witness ==
  /\ run = 1
  /\ pc = "next_row"
  /\ i = 3
  /\ Len(movies_df) = 2
  /\ movies_df[1].movieId = Text
  /\ movies_df[2].movieId = Num(1)
  /\ Len(db.movies) = 1
  /\ db.movies[1].movie_id = 1
  /\ Len(db.movie_genres) = 2
  /\ Len(hist.lookups) = 1
  /\ Cardinality(DOMAIN cache) = 1

\* the rating row of the file that load_ratings has in hand
RatingRow == ratings_csv[ri]

\* the rating rows of the store with the user, movie and timestamp given
SameRating(d, user, movie, ts) ==
  { k \in 1..Len(d.ratings) :
      /\ d.ratings[k].user_id = user
      /\ d.ratings[k].movie_id = movie
      /\ d.ratings[k].timestamp = ts }

\* C14: in load_ratings every row of the file is attempted, in file order,
\* whatever happened to the rows before it: an attempt that fails (a value
\* that does not convert, a store error) or meets a duplicate adds nothing
\* and loses nothing, the rating rows committed before it stay as they are,
\* no other table changes, and the loop goes on to the next row; an attempt
\* on a convertible, new row in a run the store has failed no insert of adds
\* exactly that row.  load_ratings returns only after the last row has been attempted.
C14_FailedRatingSkipped ==
  [][ /\ (pc = "load_ratings" /\ ri <= Len(ratings_csv)) =>
           /\ pc' = "load_ratings"
           /\ ri' = ri + 1
           /\ ratings_csv' = ratings_csv
           /\ Len(db'.ratings) \in {Len(db.ratings), Len(db.ratings) + 1}
           /\ SubSeq(db'.ratings, 1, Len(db.ratings)) = db.ratings
           /\ [db' EXCEPT !.ratings = db.ratings] = db
           /\ Len(db'.ratings) > Len(db.ratings) =>
                /\ hist' = hist
                /\ db'.ratings[Len(db'.ratings)].user_id = RatingRow.userId
                /\ db'.ratings[Len(db'.ratings)].movie_id = RatingRow.movieId
                /\ db'.ratings[Len(db'.ratings)].rating = RatingRow.rating
                /\ Num(db'.ratings[Len(db'.ratings)].timestamp) = RatingRow.timestamp
           /\ ( /\ hist'.runFaults = 0
                /\ RatingRow.rating.k = "num"
                /\ RatingRow.timestamp.k = "num"
                /\ SameRating(db, RatingRow.userId, RatingRow.movieId,
                              RatingRow.timestamp.v) = {} ) =>
                Len(db'.ratings) = Len(db.ratings) + 1
      /\ (pc = "load_ratings" /\ pc' # "load_ratings") =>
           /\ pc' = "done"
           /\ ri = Len(ratings_csv) + 1
           /\ db' = db
    ]_vars

\* C14 witness: the insert of the first rating row failed in the store, the
\* second row did not convert, and the third row was still inserted: the
\* load has finished with that row alone
C14_Witness ==
  /\ run = 1
  /\ pc = "done"
  /\ hist.runFaults = 1
  /\ ri = Len(ratings_csv) + 1
  /\ Len(db.ratings) = 1
  /\ db.ratings[1].timestamp = 0

\* C15: a rating row whose timestamp is absent is stored with timestamp 0
\* and with its user, movie and rating as given: once load_ratings has
\* attempted such a row, the store not failing, the ratings table holds a row
\* with these values.
C15_AbsentTimestampStoredAsZero ==
  [][ ( /\ pc = "load_ratings"
        /\ ri <= Len(ratings_csv)
        /\ RatingRow.timestamp.k = "nan"
        /\ hist'.runFaults = 0 ) =>
        \E k \in SameRating(db', RatingRow.userId, RatingRow.movieId, 0) :
          db'.ratings[k].rating = RatingRow.rating
    ]_vars

\* C16: within one run query_omdb is invoked at most once per cache key,
\* however many rows share the key and however the first invocation ended
\* (payload, not-found or exception): the keys of the invocations of a run
\* are pairwise different, and a key that was looked up stays in the cache
\* for the rest of the loop.  Without a credential query_omdb is never
\* invoked and no request is sent.
C16_OneLookupPerKey ==
  /\ \A m, n \in 1..Len(hist.lookups) :
       m # n => hist.lookups[m] # hist.lookups[n]
  /\ pc \in {"next_row", "upsert_movie", "get_genre_id", "attach_genre"} =>
       \A n \in 1..Len(hist.lookups) : hist.lookups[n] \in DOMAIN cache
  /\ ~args.apikey =>
       /\ hist.lookups = <<>>
       /\ hist.call = NoCall
       /\ pc \notin {"query_omdb", "query_omdb_retry"}
       /\ loc.route # "query"

\* C16 witness: with the credential set, two rows share a key; the lookup
\* for the first row ended without result, and the second row has taken the
\* cached marker without another lookup
C16_Witness ==
  /\ run = 1
  /\ args.apikey
  /\ i = 2
  /\ Len(movies_df) = 2
  /\ movies_df[1].title = movies_df[2].title
  /\ loc.route = "hit"
  /\ hist.lookups = <<loc.cache_key>>
  /\ cache[loc.cache_key] = PyNone
  /\ loc.omdb_data = PyNone

\* what the tables hold, as sets
MovieIds(d) == { d.movies[k].movie_id : k \in 1..Len(d.movies) }

GenreRows(d) == { d.genres[k] : k \in 1..Len(d.genres) }

AssociationRows(d) == { d.movie_genres[k] : k \in 1..Len(d.movie_genres) }

RatingRows(d) == { d.ratings[k] : k \in 1..Len(d.ratings) }

\* C17: no step of the pipeline, in any run, removes a movie, a genre, an
\* association or a rating: over every step the set of movie identifiers,
\* the set of genres (id and name), the set of (movie, genre) associations and
\* the set of rating rows of the store stay or grow; so the associations a
\* movie got from an earlier genre list stay when the movie is processed
\* again with another list.
C17_NothingDeleted ==
  [][ /\ MovieIds(db) \subseteq MovieIds(db')
      /\ GenreRows(db) \subseteq GenreRows(db')
      /\ AssociationRows(db) \subseteq AssociationRows(db')
      /\ RatingRows(db) \subseteq RatingRows(db')
    ]_vars

\* C17 witness: in a second run, movie 1 has just been processed again with
\* a genre list that names G alone, and its association with the second
\* genre, from its other row, is still there next to the one with G
C17_Witness ==
  /\ run = 2
  /\ pc = "next_row"
  /\ i = 3
  /\ Len(movies_df) = 2
  /\ movies_df[1].movieId = Num(1)
  /\ movies_df[2].movieId = Num(1)
  /\ parse_genres(movies_df[1].genres) = <<<<"G">>, <<"H">>>>
  /\ parse_genres(movies_df[2].genres) = <<<<"G">>, <<"G">>>>
  /\ Cardinality(Associations(db, 1, <<"G">>)) = 1
  /\ Cardinality(Associations(db, 1, <<"H">>)) = 1
  /\ Cardinality(MovieRows(db, 1)) = 1
  /\ Len(db.ratings) = 2

\* the genre rows of the store with that id
GenresWithId(d, gid) == { n \in 1..Len(d.genres) : d.genres[n].id = gid }

\* C18: in every state the committed store is referentially whole: each
\* association row names a movie identifier that has a movie row and a genre
\* id that has a genre row.  Within a row the movie is committed before its
\* genres are handled, and the genre a pair is about to be attached to is
\* committed, under the name of the list, before the attach.
C18_AssociationsRefer ==
  /\ \A k \in 1..Len(db.movie_genres) :
       /\ MovieRows(db, db.movie_genres[k].movie_id) # {}
       /\ Cardinality(GenresWithId(db, db.movie_genres[k].genre_id)) = 1
  /\ pc \in {"get_genre_id", "attach_genre"} =>
       Cardinality(MovieRows(db, loc.movie_id)) = 1
  /\ pc = "attach_genre" =>
       \E n \in GenresWithId(db, loc.gid) :
         db.genres[n].name = loc.genre_list[loc.g]

\* C18 witness: the movie is stored and has its first genre; the second
\* genre of its list has just been created and is about to be attached
C18_Witness ==
  /\ pc = "attach_genre"
  /\ loc.g = 2
  /\ Cardinality(MovieRows(db, loc.movie_id)) = 1
  /\ Len(db.genres) = 2
  /\ loc.gid = db.genres[2].id
  /\ Len(db.movie_genres) = 1
  /\ db.movie_genres[1].genre_id = db.genres[1].id

====
